---- MODULE Spec2Model ----
(***************************************************************************)
(* A model of python-insteon: the asyncio request engine of                *)
(* insteon/io/port.py (specification SpecPort) and the link-database       *)
(* reconciliation of insteon/dev/dbmanager.py over insteon/dev/linkdb.py   *)
(* (specification SpecDB).                                                 *)
(*                                                                         *)
(* The model follows Python's evaluation of every statement, the           *)
(* exceptions a statement raises included: an exception ends the coroutine *)
(* or the call that does not catch it.                                     *)
(***************************************************************************)
EXTENDS Integers, Sequences, FiniteSets, TLC

\* ------------------------------------------------------------------------
\* Bounds of the model
\* ------------------------------------------------------------------------
MaxRequests == 2
MaxRecords == 2
MaxOps == 2
MaxFrames == 2

Priorities == {1, 2}
RetryCounts == {1, 2}
Predicates == {"any", "none"}

NoRequest == 0
NoTuple == [prio |-> 0, id |-> NoRequest]

VARIABLES
    \* ---- insteon/io/port.py ----
    queue,          \* Port._queue: the heap list of (priority, request) tuples
    reqs,           \* the Request objects created so far, by identity 1..Len(reqs)
    held,           \* requests the caller still holds a strong reference to
    open_requests,  \* Port._open_requests
    task,           \* Port._task: "none" or "running"
    writer,         \* position of _run_writer
    reader,         \* position of _run_reader
    wire,           \* requests whose message conn.write has put on the wire
    got,            \* the (priority, request) tuple the writer took from the queue
    call            \* outcome of the caller's last API call

portVars == <<queue, reqs, held, open_requests, task, writer, reader,
              wire, got, call>>

VARIABLES
    \* ---- insteon/dev/dbmanager.py ----
    dev,            \* the link table held by the device, highest offset first
    linker,         \* whether device and modem have the linker feature
    userdb,         \* a LinkDB built by the caller, passed as srcdb
    cache,          \* DBManager.cache
    files,          \* the backup files written, by content
    ops,            \* calls of update_cache / flash_cache made so far
    pc,             \* position inside the running call, "idle" between calls
    site,           \* which update_cache call is running
    allow,          \* allow_linking of the running update_cache
    src,            \* srcdb of the running flash_cache
    currentdb,      \* currentdb of flash_cache / _write
    records,        \* records of update_cache
    idx,            \* position of the running for loop of _write
    last_remove,    \* last_remove of _write
    free_offset,    \* free_offset of _write
    log,            \* commands issued and files saved by the running call, in order
    result,         \* how the last call ended
    method,         \* the public method running or last run
    kind,           \* the manager's class: "generic" or "modem"
    backup          \* currentdb of flash_cache, the database it saves

dbVars == <<dev, linker, userdb, cache, files, ops, pc, site, allow, src,
            currentdb, records, idx, last_remove, free_offset, log, result, method,
            kind, backup>>

VARIABLES
    \* ---- insteon/dev/linkdb.py, its functions called on their own ----
    recA,           \* self of LinkRecord.matches
    recB,           \* other of LinkRecord.matches
    matched,        \* what matches returned: "none" before the call
    linkdb,         \* the LinkDB whose packed property is read
    packed_db,      \* what LinkDB.packed returned
    unpacked_db     \* what LinkDB.unpack returned for it

linkVars == <<recA, recB, matched, linkdb, packed_db, unpacked_db>>

VARIABLES
    \* ---- insteon/io/serial.py ----
    is_open,        \* SerialConn.is_open
    stream          \* what has arrived on the serial line and is not yet read

connVars == <<is_open, stream>>

vars == <<portVars, dbVars, linkVars, connVars>>

\* ------------------------------------------------------------------------
\* Request  (port.py:18-119)
\* ------------------------------------------------------------------------
\* Request.__init__
NewRequest(retries) ==
    [remaining  |-> retries,
     tries      |-> 0,
     written    |-> FALSE,
     successful |-> FALSE,
     failure    |-> FALSE,
     done       |-> FALSE,
     responses  |-> <<>>]

Ids == 1..Len(reqs)

InQueue(i) == \E k \in 1..Len(queue) : queue[k].id = i

\* An object is alive while something refers to it: the caller, a tuple in the
\* queue, or the frame of the writer kept by the exception that ended it.
Referenced(i) == i \in held \/ InQueue(i) \/ got.id = i

\* Objects that lose their last reference are finalized at once (reference
\* counting): Request.__del__ sets done.
Finalize(rs, q, h, g) ==
    [i \in 1..Len(rs) |->
        IF i \in h \/ g.id = i \/ (\E k \in 1..Len(q) : q[k].id = i)
        THEN rs[i]
        ELSE [rs[i] EXCEPT !.done = TRUE]]

\* ------------------------------------------------------------------------
\* asyncio.PriorityQueue: heapq over (priority, request) tuples
\* ------------------------------------------------------------------------
\* (p1, r1) < (p2, r2): decided by the priorities when they differ; on a tie
\* Python compares the Request objects, which define no ordering.
TupleLt(a, b) ==
    IF a.prio < b.prio THEN "lt"
    ELSE IF a.prio > b.prio THEN "ge"
    ELSE "TypeError"

Swap(h, i, j) == [h EXCEPT ![i] = h[j], ![j] = h[i]]

\* heapq's siftdown; positions are Python's, counted from 0
RECURSIVE SiftDown(_, _, _)
SiftDown(h, startpos, pos) ==
    IF pos <= startpos THEN [heap |-> h, err |-> FALSE]
    ELSE LET parentpos == (pos - 1) \div 2
             c == TupleLt(h[pos + 1], h[parentpos + 1])
         IN  IF c = "TypeError" THEN [heap |-> h, err |-> TRUE]
             ELSE IF c = "ge" THEN [heap |-> h, err |-> FALSE]
             ELSE SiftDown(Swap(h, pos + 1, parentpos + 1), startpos, parentpos)

\* heapq.heappush: append, then sift the new item towards the root
HeapPush(h, item) == SiftDown(Append(h, item), 0, Len(h))

RECURSIVE SiftUpLoop(_, _)
SiftUpLoop(h, pos) ==
    IF pos >= Len(h) \div 2 THEN [heap |-> h, err |-> FALSE, pos |-> pos]
    ELSE LET childpos == 2 * pos + 1
             c == IF childpos + 1 < Len(h)
                  THEN TupleLt(h[childpos + 1], h[childpos + 2])
                  ELSE "lt"
         IN  IF c = "TypeError" THEN [heap |-> h, err |-> TRUE, pos |-> pos]
             ELSE LET cp == IF c = "ge" THEN childpos + 1 ELSE childpos
                  IN  SiftUpLoop(Swap(h, cp + 1, pos + 1), cp)

\* heapq's siftup
SiftUp(h, pos) ==
    LET r == SiftUpLoop(h, pos)
    IN  IF r.err THEN [heap |-> r.heap, err |-> TRUE]
        ELSE SiftDown(r.heap, pos, r.pos)

\* heapq.heappop of a non-empty heap; no item when the comparison raised
HeapPop(h) ==
    LET n == Len(h)
        last == h[n]
        rest == SubSeq(h, 1, n - 1)
    IN  IF n = 1 THEN [item |-> last, heap |-> <<>>, err |-> FALSE]
        ELSE LET r == SiftUp([rest EXCEPT ![1] = last], 0)
             IN  IF r.err THEN [item |-> NoTuple, heap |-> r.heap, err |-> TRUE]
                 ELSE [item |-> rest[1], heap |-> r.heap, err |-> FALSE]

\* ------------------------------------------------------------------------
\* Port  (port.py:121-233)
\* ------------------------------------------------------------------------
\* Port.write: a new Request is put on the queue; put_nowait raises TypeError
\* when heappush had to compare two tuples of equal priority, after the tuple
\* was appended to the heap list. The caller gets the request only on return.
PortWrite(priority, retries) ==
    /\ Len(reqs) < MaxRequests
    /\ LET i == Len(reqs) + 1
           r == HeapPush(queue, [prio |-> priority, id |-> i])
       IN  /\ reqs' = Append(reqs, NewRequest(retries))
           /\ queue' = r.heap
           /\ held' = IF r.err THEN held ELSE held \cup {i}
           /\ call' = [op |-> "write", id |-> i,
                       outcome |-> IF r.err THEN "TypeError" ELSE "ok"]
    /\ UNCHANGED <<open_requests, task, writer, reader, wire, got>>
    /\ UNCHANGED <<dbVars, linkVars, connVars>>

\* Port.start: clears the registry, replaces the queue and creates the
\* gather of both loops; the loops are started once.
Start ==
    /\ task = "none"
    /\ open_requests' = <<>>
    /\ queue' = <<>>
    /\ reqs' = Finalize(reqs, <<>>, held, got)
    /\ task' = "running"
    /\ writer' = "ready"
    /\ reader' = "ready"
    /\ UNCHANGED <<held, wire, got, call>>
    /\ UNCHANGED <<dbVars, linkVars, connVars>>

\* Port._run_writer, from the first resumption of the coroutine to its first
\* suspension or its end. With an empty queue it suspends in queue.get().
\* Otherwise get() returns the (priority, request) tuple, or raises the
\* TypeError of a heappop that compared a tie; weakref.ref of the tuple
\* (line 168) raises TypeError, the finally clause logs and the coroutine
\* ends with that exception. Lines 170-200 are never reached.
RunWriter ==
    /\ task = "running"
    /\ writer = "ready"
    /\ IF queue = <<>>
       THEN /\ writer' = "blocked"
            /\ UNCHANGED <<queue, got, reqs>>
       ELSE LET r == HeapPop(queue)
            IN  /\ queue' = r.heap
                /\ got' = r.item
                /\ reqs' = Finalize(reqs, r.heap, held, r.item)
                /\ writer' = "failed"
    /\ UNCHANGED <<held, open_requests, task, reader, wire, call>>
    /\ UNCHANGED <<dbVars, linkVars, connVars>>

\* Port._run_reader: self._conn is no attribute of Port, so line 210 raises
\* AttributeError before anything is awaited; "except Exception" logs it and
\* continues. The loop never suspends, so once the reader runs no other
\* coroutine of the event loop runs again (the writer's first slice comes
\* first: gather schedules it first). Every further iteration leaves the
\* state as it is.
RunReader ==
    /\ task = "running"
    /\ reader = "ready"
    /\ writer # "ready"
    /\ reader' = "spinning"
    /\ UNCHANGED <<queue, reqs, held, open_requests, task, writer, wire, got, call>>
    /\ UNCHANGED <<dbVars, linkVars, connVars>>

\* Request.success
Success(i) ==
    /\ i \in held
    /\ ~reqs[i].successful
    /\ reqs' = [reqs EXCEPT ![i].successful = TRUE]
    /\ UNCHANGED <<queue, held, open_requests, task, writer, reader, wire, got, call>>
    /\ UNCHANGED <<dbVars, linkVars, connVars>>

\* Request.fail
Fail(i) ==
    /\ i \in held
    /\ ~reqs[i].failure
    /\ reqs' = [reqs EXCEPT ![i].failure = TRUE]
    /\ UNCHANGED <<queue, held, open_requests, task, writer, reader, wire, got, call>>
    /\ UNCHANGED <<dbVars, linkVars, connVars>>

\* Request.__exit__ called on the request: done.set()
RequestExit(i) ==
    /\ i \in held
    /\ ~reqs[i].done
    /\ reqs' = [reqs EXCEPT ![i].done = TRUE]
    /\ UNCHANGED <<queue, held, open_requests, task, writer, reader, wire, got, call>>
    /\ UNCHANGED <<dbVars, linkVars, connVars>>

\* The caller lets the request go out of scope; Request.__del__ runs when
\* nothing else refers to it.
Drop(i) ==
    /\ i \in held
    /\ held' = held \ {i}
    /\ reqs' = Finalize(reqs, queue, held \ {i}, got)
    /\ UNCHANGED <<queue, open_requests, task, writer, reader, wire, got, call>>
    /\ UNCHANGED <<dbVars, linkVars, connVars>>

\* Request._wait_util(predicate) and Request._wait(): both are defined
\* without self, so calling them on a request raises TypeError before the
\* inbox is looked at or anything is awaited.
WaitUntil(i, predicate) ==
    /\ i \in held
    /\ call' = [op |-> "wait_until", id |-> i, outcome |-> "TypeError"]
    /\ UNCHANGED <<queue, reqs, held, open_requests, task, writer, reader, wire, got>>
    /\ UNCHANGED <<dbVars, linkVars, connVars>>

Wait(i) ==
    /\ i \in held
    /\ call' = [op |-> "wait", id |-> i, outcome |-> "TypeError"]
    /\ UNCHANGED <<queue, reqs, held, open_requests, task, writer, reader, wire, got>>
    /\ UNCHANGED <<dbVars, linkVars, connVars>>

\* What arrives on the serial line: bytes that decode to no message, and
\* the bytes of a well-formed message
Frames == {"bad", "msg"}

\* the serial line delivers input to the open port
Arrive(frame) ==
    /\ is_open
    /\ Len(stream) < MaxFrames
    /\ stream' = Append(stream, frame)
    /\ UNCHANGED <<queue, reqs, held, open_requests, task, writer, reader, wire, got,
                   call, is_open>>
    /\ UNCHANGED <<dbVars, linkVars>>

\* SerialConn.read (serial.py:49-57), called on the connection: None when
\* the port is not open, else what the port read; an exception of the port
\* is raised again as it is, and the port is left open
SerialRead(fails) ==
    /\ call' = [op |-> "serial_read", id |-> NoRequest,
                outcome |-> IF ~is_open THEN "None"
                            ELSE IF fails THEN "Exception" ELSE "ok"]
    /\ stream' = IF is_open /\ ~fails /\ stream # <<>> THEN Tail(stream) ELSE stream
    /\ UNCHANGED <<queue, reqs, held, open_requests, task, writer, reader, wire, got,
                   is_open>>
    /\ UNCHANGED <<dbVars, linkVars>>

\* SerialConn.write (serial.py:59-69) with SerialConn.close (41-47): None
\* when the port is not open; on an exception of the port the connection
\* is closed and EOFError or InsteonError is raised
SerialWrite(outcome) ==
    /\ call' = [op |-> "serial_write", id |-> NoRequest,
                outcome |-> IF ~is_open THEN "None" ELSE outcome]
    /\ is_open' = (is_open /\ outcome = "ok")
    /\ UNCHANGED <<queue, reqs, held, open_requests, task, writer, reader, wire, got,
                   stream>>
    /\ UNCHANGED <<dbVars, linkVars>>

\* SerialConn.__init__ returned: the port is open
ConnIdle ==
    /\ is_open = TRUE
    /\ stream = <<>>

PortIdle ==
    /\ queue = <<>>
    /\ reqs = <<>>
    /\ held = {}
    /\ open_requests = <<>>
    /\ task = "none"
    /\ writer = "none"
    /\ reader = "none"
    /\ wire = <<>>
    /\ got = NoTuple
    /\ call = [op |-> "none", id |-> NoRequest, outcome |-> "ok"]

\* ------------------------------------------------------------------------
\* LinkRecord / LinkDB  (linkdb.py)
\* ------------------------------------------------------------------------
\* None, for a number and for a sequence
None == -1
NoneSeq == <<>>

TableTop == 4095
RecordWidth == 8

ModemAddress == <<1, 1, 1>>
AddressA == <<2, 2, 2>>
ZeroAddress == <<0, 0, 0>>
ZeroData == <<0, 0, 0>>
ActiveBit == 128
ControllerBit == 64

\* LinkRecord.__init__
LinkRecord(offset, address, group, flags, data, filter_flags_mask) ==
    [offset |-> offset, address |-> address, group |-> group, flags |-> flags,
     data |-> data, mask |-> filter_flags_mask]

NoRecord == LinkRecord(None, NoneSeq, None, None, NoneSeq, None)

\* x & y on non-negative integers
RECURSIVE BitAnd(_, _)
BitAnd(x, y) ==
    IF x = 0 \/ y = 0 THEN 0
    ELSE (x % 2) * (y % 2) + 2 * BitAnd(x \div 2, y \div 2)

\* LinkRecord.active, .controller, .responder
Active(r) == BitAnd(r.flags, ActiveBit) > 0
Controller(r) == BitAnd(r.flags, ControllerBit) > 0
Responder(r) == ~Controller(r)

\* Equality of two addresses: byte by byte.  linkdb.py and dbmanager.py use
\* an Address with equality, packed and array; the class in io/address.py
\* defines none of them, so the address is the value type of three bytes
\* that the link database is written against.
AddrEq(a, b) == a = b

\* LinkRecord.copy: the filter mask is not copied
Copy(r) == LinkRecord(r.offset, r.address, r.group, r.flags, r.data, None)

\* Python's truth value of an optional number
Truthy(x) == x # None /\ x # 0

\* LinkRecord.matches
Matches(self, other) ==
    /\ ~(self.offset # None /\ other.offset # None /\ self.offset # other.offset)
    /\ ~(self.address # NoneSeq /\ other.address # NoneSeq
            /\ ~AddrEq(self.address, other.address))
    /\ ~(self.group # None /\ other.group # None /\ self.group # other.group)
    /\ (self.flags # None /\ other.flags # None) =>
          LET filter_flags == IF Truthy(self.mask) THEN self.mask ELSE other.mask
          IN  IF Truthy(filter_flags)
              THEN BitAnd(self.flags, filter_flags) = BitAnd(other.flags, filter_flags)
              ELSE self.flags = other.flags
    /\ ~(self.data # NoneSeq /\ other.data # NoneSeq /\ self.data # other.data)

\* LinkDB.__init__
LinkDB(recs, timestamp) == [records |-> recs, timestamp |-> timestamp]

\* LinkDB.__contains__
Contains(db, record) == \E k \in 1..Len(db.records) : Matches(record, db.records[k])

\* LinkDB.valid
Valid(db) == db.timestamp # None

\* LinkDB.end_offset
RECURSIVE EndOffsetFrom(_, _, _)
EndOffsetFrom(recs, k, last_off) ==
    IF k > Len(recs) THEN last_off
    ELSE EndOffsetFrom(recs, k + 1,
            IF Truthy(recs[k].offset) /\ recs[k].offset - RecordWidth < last_off
            THEN recs[k].offset - RecordWidth
            ELSE last_off)

EndOffset(db) == EndOffsetFrom(db.records, 1, TableTop)

\* LinkDB.update from another LinkDB: the records replace the old ones (they
\* are distinct objects, so add keeps each) and the timestamp is the other
\* database's, or the current time when that is unset
Update(other, now) ==
    LinkDB(other.records, IF other.timestamp # None THEN other.timestamp ELSE now)

\* A timestamp counts ticks of the clock; strftime with '%b %d %Y %H:%M:%S'
\* writes the second the tick falls in, strptime reads a second back as its
\* first tick
TicksPerSecond == 2

Strftime(timestamp) == timestamp \div TicksPerSecond

Strptime(second) == second * TicksPerSecond

\* Address.packed and Address.unpack: the three bytes as one number
AddressPacked(address) == address[1] * 65536 + address[2] * 256 + address[3]

AddressUnpack(n) == <<n \div 65536, (n \div 256) % 256, n % 256>>

\* LinkRecord.packed: the offset is left out when it is None or 0; a key
\* that is left out reads None
PackedRecord(r) ==
    [offset |-> IF Truthy(r.offset) THEN r.offset ELSE None,
     address |-> AddressPacked(r.address), group |-> r.group, flags |-> r.flags,
     data |-> r.data]

\* LinkDB.packed, as written by LinkDB.save
Packed(db) ==
    [timestamp |-> Strftime(db.timestamp),
     records |-> [k \in 1..Len(db.records) |-> PackedRecord(db.records[k])]]

\* no packed database yet
NoPacked == [timestamp |-> None, records |-> <<>>]

\* LinkRecord.unpack
UnpackRecord(p) ==
    LinkRecord(p.offset, AddressUnpack(p.address), p.group, p.flags, p.data, None)

\* LinkDB.unpack
Unpack(p) ==
    LinkDB([k \in 1..Len(p.records) |-> UnpackRecord(p.records[k])],
           IF p.timestamp # None THEN Strptime(p.timestamp) ELSE None)

\* ------------------------------------------------------------------------
\* The device at the other end of the transport
\* ------------------------------------------------------------------------
\* An extended write of 8 bytes at an offset replaces that slot of the table
RECURSIVE DevWrite(_, _)
DevWrite(table, rec) ==
    IF table = <<>> THEN <<rec>>
    ELSE IF Head(table).offset = rec.offset THEN <<rec>> \o Tail(table)
    ELSE IF Head(table).offset < rec.offset THEN <<rec>> \o table
    ELSE <<Head(table)>> \o DevWrite(Tail(table), rec)

\* The slot a zero-filled write leaves behind
ZeroSlot(offset) == LinkRecord(offset, ZeroAddress, 0, 0, ZeroData, None)

\* Linking the modem as controller: the device stores a responder record for
\* the modem in its first unused slot, else below its last one
FirstUnused(table) ==
    IF \E k \in 1..Len(table) : ~Active(table[k])
    THEN table[CHOOSE k \in 1..Len(table) :
                  ~Active(table[k]) /\ \A j \in 1..(k - 1) : Active(table[j])].offset
    ELSE IF table = <<>> THEN TableTop
    ELSE table[Len(table)].offset - RecordWidth

DevLink(table) ==
    DevWrite(table, LinkRecord(FirstUnused(table), ModemAddress, 1, ActiveBit,
                               ZeroData, None))

\* ------------------------------------------------------------------------
\* The modem's own link table
\* ------------------------------------------------------------------------
\* Delete by search (control code 0x80): the first record with the address,
\* the group and the link type of the command is dropped
RECURSIVE ModemDelete(_, _)
ModemDelete(table, rec) ==
    IF table = <<>> THEN <<>>
    ELSE IF /\ AddrEq(Head(table).address, rec.address)
            /\ Head(table).group = rec.group
            /\ Controller(Head(table)) = Controller(rec)
         THEN Tail(table)
         ELSE <<Head(table)>> \o ModemDelete(Tail(table), rec)

\* Add as controller or as responder (control codes 0x40, 0x41)
ModemAdd(table, rec) ==
    Append(table, LinkRecord(None, rec.address, rec.group, rec.flags, rec.data, None))

\* ------------------------------------------------------------------------
\* DBManager, GenericDBManager, ModemDBManager  (dbmanager.py)
\* ------------------------------------------------------------------------
EmptyDB == LinkDB(<<>>, None)

\* what the other end answers to a command: a positive or a negative
\* acknowledgment, or nothing
Replies == {"ack", "nack", "none"}

\* a command sent, with the answer it got
CmdReply(name, rec, reply) == [cmd |-> name, rec |-> rec, reply |-> reply]

Cmd(name, rec) == CmdReply(name, rec, "ack")

\* an exception leaves the running call
Raise(e) ==
    /\ result' = e
    /\ pc' = "idle"

\* GenericDBManager._retrieve, the loop over the record messages: a record is
\* added unless one with its offset is already there
RECURSIVE RetrieveFrom(_, _, _)
RetrieveFrom(msgs, k, db) ==
    IF k > Len(msgs) THEN db
    ELSE RetrieveFrom(msgs, k + 1,
            IF Contains(db, LinkRecord(msgs[k].offset, NoneSeq, None, None, NoneSeq, None))
            THEN db
            ELSE LinkDB(Append(db.records,
                               LinkRecord(msgs[k].offset, msgs[k].address, msgs[k].group,
                                          msgs[k].flags, msgs[k].data, None)),
                        db.timestamp))

\* GenericDBManager._check_permissions
CheckPermissions(db) ==
    Contains(db, LinkRecord(None, ModemAddress, None, None, NoneSeq, ControllerBit))

\* the locals of a call that begins
FreshLocals ==
    /\ records' = EmptyDB
    /\ idx' = 1
    /\ last_remove' = NoRecord
    /\ free_offset' = TableTop
    /\ backup' = EmptyDB
    /\ currentdb' = EmptyDB

\* DBManager.update_cache, called by the user on the cache
CallUpdateCache(allow_linking) ==
    /\ pc = "idle"
    /\ ops < MaxOps
    /\ ops' = ops + 1
    /\ method' = "update_cache"
    /\ site' = "user"
    /\ allow' = allow_linking
    /\ log' = <<>>
    /\ result' = "running"
    /\ pc' = "retrieve"
    /\ src' = EmptyDB
    /\ FreshLocals
    /\ UNCHANGED <<dev, linker, userdb, cache, files>>
    /\ UNCHANGED <<kind, portVars, linkVars, connVars>>

\* flash_cache without the check of lines 48-52
CallFlashCacheUnchecked(given, allow_linking) ==
    /\ pc = "idle"
    /\ ops < MaxOps
    /\ ops' = ops + 1
    /\ method' = "flash_cache"
    /\ log' = <<>>
    /\ src' = IF given THEN userdb ELSE cache
    /\ result' = "running"
    /\ site' = "backup"
    /\ allow' = allow_linking
    /\ pc' = "retrieve"
    /\ FreshLocals
    /\ UNCHANGED <<dev, linker, userdb, cache, files>>
    /\ UNCHANGED <<kind, portVars, linkVars, connVars>>

\* DBManager.flash_cache up to its call of update_cache (lines 42-58)
CallFlashCache(given, allow_linking) ==
    /\ pc = "idle"
    /\ ops < MaxOps
    /\ ops' = ops + 1
    /\ method' = "flash_cache"
    /\ log' = <<>>
    /\ LET srcdb == IF given THEN userdb ELSE cache
       IN  /\ src' = srcdb
           /\ IF ~Valid(srcdb)
              THEN /\ result' = "InsteonError: source not populated"
                   /\ site' = "user"
                   /\ allow' = FALSE
                   /\ UNCHANGED pc
              ELSE /\ result' = "running"
                   /\ site' = "backup"
                   /\ allow' = allow_linking
                   /\ pc' = "retrieve"
    /\ FreshLocals
    /\ UNCHANGED <<dev, linker, userdb, cache, files>>
    /\ UNCHANGED <<kind, portVars, linkVars, connVars>>

\* _retrieve that takes silence for a device without records
RetrieveSilentEmpty ==
    /\ kind = "generic"
    /\ pc \in {"retrieve", "retrieve_again"}
    /\ \E reply \in {"ack", "none"} :
          /\ log' = Append(log, CmdReply("read", NoRecord, reply))
          /\ records' = IF reply = "none" THEN EmptyDB ELSE RetrieveFrom(dev, 1, EmptyDB)
          /\ pc' = IF pc = "retrieve" THEN "check" ELSE "merge"
          /\ UNCHANGED result
    /\ UNCHANGED <<dev, linker, userdb, cache, files, ops, site, allow, src,
                   currentdb, idx, last_remove, free_offset>>
    /\ UNCHANGED <<method, kind, backup, portVars, linkVars, connVars>>

\* GenericDBManager._retrieve (lines 134-159): the read command is sent; no
\* reply raises, else the records the device sends are collected
Retrieve ==
    /\ kind = "generic"
    /\ pc \in {"retrieve", "retrieve_again"}
    /\ \E reply \in {"ack", "none"} :
          /\ log' = Append(log, CmdReply("read", NoRecord, reply))
          /\ IF reply = "none"
             THEN /\ Raise("InsteonError: no reply")
                  /\ UNCHANGED records
             ELSE /\ records' = RetrieveFrom(dev, 1, EmptyDB)
                  /\ pc' = IF pc = "retrieve" THEN "check" ELSE "merge"
                  /\ UNCHANGED result
    /\ UNCHANGED <<dev, linker, userdb, cache, files, ops, site, allow, src,
                   currentdb, idx, last_remove, free_offset>>
    /\ UNCHANGED <<method, kind, backup, portVars, linkVars, connVars>>

\* update_cache without the test of line 31
CheckSkipped ==
    /\ pc = "check"
    /\ pc' = "merge"
    /\ UNCHANGED <<dev, linker, userdb, cache, files, ops, site, allow, src,
                   currentdb, records, idx, last_remove, free_offset, log, result>>
    /\ UNCHANGED <<method, kind, backup, portVars, linkVars, connVars>>

\* update_cache, line 31
Check ==
    /\ pc = "check"
    /\ pc' = IF kind = "modem" \/ CheckPermissions(records) THEN "merge" ELSE "grant"
    /\ UNCHANGED <<dev, linker, userdb, cache, files, ops, site, allow, src,
                   currentdb, records, idx, last_remove, free_offset, log, result>>
    /\ UNCHANGED <<method, kind, backup, portVars, linkVars, connVars>>

\* update_cache with a _grant_permissions that links whether or not the
\* caller allowed it
GrantUnasked ==
    /\ pc = "grant"
    /\ IF ~linker
       THEN /\ Raise("InsteonError: missing linker feature")
            /\ UNCHANGED <<dev, log>>
       ELSE /\ log' = log \o <<Cmd("start_linking_controller", NoRecord),
                               Cmd("start_linking_responder", NoRecord)>>
            /\ dev' \in {dev, DevLink(dev)}
            /\ pc' = "retrieve_again"
            /\ UNCHANGED result
    /\ UNCHANGED <<linker, userdb, cache, files, ops, site, allow, src,
                   currentdb, records, idx, last_remove, free_offset>>
    /\ UNCHANGED <<method, kind, backup, portVars, linkVars, connVars>>

\* update_cache, lines 32-34, with GenericDBManager._grant_permissions
\* (lines 116-132): refused without allow_linking, an error without the
\* linker feature, else both linking commands are sent and the device had
\* time to store the link, which it may or may not have done
Grant ==
    /\ pc = "grant"
    /\ IF ~allow
       THEN /\ Raise("InsteonError: not linked as a controller")
            /\ UNCHANGED <<dev, log>>
       ELSE IF ~linker
       THEN /\ Raise("InsteonError: missing linker feature")
            /\ UNCHANGED <<dev, log>>
       ELSE /\ log' = log \o <<Cmd("start_linking_controller", NoRecord),
                               Cmd("start_linking_responder", NoRecord)>>
            /\ dev' \in {dev, DevLink(dev)}
            /\ pc' = "retrieve_again"
            /\ UNCHANGED result
    /\ UNCHANGED <<linker, userdb, cache, files, ops, site, allow, src,
                   currentdb, records, idx, last_remove, free_offset>>
    /\ UNCHANGED <<method, kind, backup, portVars, linkVars, connVars>>

\* update_cache, lines 38-40: targetdb.update(records) and the return to the
\* caller: the user, flash_cache before the backup (line 58), _write
\* (line 206) or flash_cache at its end (line 70)
Merge ==
    /\ pc = "merge"
    /\ LET updated == Update(records, ops)
       IN  CASE site = "backup" ->
                  /\ backup' = updated
                  /\ currentdb' = updated
                  /\ pc' = "save"
                  /\ UNCHANGED <<cache, idx, free_offset, result>>
             [] site = "refresh" ->
                  /\ currentdb' = updated
                  /\ free_offset' = IF kind = "generic" THEN EndOffset(updated)
                                                        ELSE free_offset
                  /\ idx' = 1
                  /\ pc' = "add"
                  /\ UNCHANGED <<cache, result, backup>>
             [] OTHER ->
                  /\ cache' = updated
                  /\ result' = "ok"
                  /\ pc' = "idle"
                  /\ UNCHANGED <<currentdb, idx, free_offset, backup>>
    /\ UNCHANGED <<dev, linker, userdb, files, ops, site, allow, src, records,
                   last_remove, log>>
    /\ UNCHANGED <<method, kind, portVars, linkVars, connVars>>

\* flash_cache, lines 60-67: the backup is saved and _write begins
\* (lines 161-165, 191)
Save ==
    /\ pc = "save"
    /\ files' = files \cup {Packed(currentdb)}
    /\ log' = Append(log, Cmd("save", NoRecord))
    /\ free_offset' = IF kind = "generic" THEN EndOffset(currentdb) ELSE free_offset
    /\ last_remove' = NoRecord
    /\ idx' = 1
    /\ pc' = "delete"
    /\ UNCHANGED <<dev, linker, userdb, cache, ops, site, allow, src, currentdb,
                   records, result>>
    /\ UNCHANGED <<method, kind, backup, portVars, linkVars, connVars>>

\* GenericDBManager._write, one turn of the loop of lines 192-202
DeleteStep ==
    /\ kind = "generic"
    /\ pc = "delete"
    /\ idx <= Len(currentdb.records)
    /\ idx' = idx + 1
    /\ LET record == currentdb.records[idx]
           filter_rec == [Copy(record) EXCEPT !.offset = None]
       IN  IF ~Active(record) \/ Contains(src, filter_rec)
           THEN UNCHANGED <<dev, last_remove, log>>
           ELSE IF AddrEq(record.address, ModemAddress) /\ Responder(record)
                   /\ last_remove = NoRecord
           THEN /\ last_remove' = record
                /\ UNCHANGED <<dev, log>>
           ELSE /\ \E reply \in Replies :
                     /\ log' = Append(log, CmdReply("delete", record, reply))
                     /\ dev' = IF reply = "ack"
                               THEN DevWrite(dev, ZeroSlot(record.offset))
                               ELSE dev
                /\ UNCHANGED last_remove
    /\ UNCHANGED <<linker, userdb, cache, files, ops, pc, site, allow, src,
                   currentdb, records, free_offset, result>>
    /\ UNCHANGED <<method, kind, backup, portVars, linkVars, connVars>>

\* _write, lines 204-206: a fresh currentdb is fetched through update_cache
Refresh ==
    /\ kind = "generic"
    /\ pc = "delete"
    /\ idx > Len(currentdb.records)
    /\ currentdb' = EmptyDB
    /\ site' = "refresh"
    /\ allow' = FALSE
    /\ pc' = "retrieve"
    /\ UNCHANGED <<dev, linker, userdb, cache, files, ops, src, records, idx,
                   last_remove, free_offset, log, result>>
    /\ UNCHANGED <<method, kind, backup, portVars, linkVars, connVars>>

\* _write, one turn of the loop of lines 211-218; add (lines 177-189) sends
\* the record to record.offset, which raises TypeError when that is None
AddStep ==
    /\ kind = "generic"
    /\ pc = "add"
    /\ idx <= Len(src.records)
    /\ LET record == src.records[idx]
           filter_rec == [Copy(record) EXCEPT !.offset = None]
       IN  IF Contains(currentdb, filter_rec)
           THEN /\ idx' = idx + 1
                /\ UNCHANGED <<dev, free_offset, log, pc, result>>
           ELSE IF free_offset < RecordWidth
           THEN /\ Raise("InsteonError: out of space")
                /\ UNCHANGED <<dev, free_offset, log, idx>>
           ELSE IF record.offset = None
           THEN /\ Raise("TypeError")
                /\ UNCHANGED <<dev, free_offset, log, idx>>
           ELSE /\ \E reply \in Replies :
                     /\ log' = Append(log, CmdReply("add", record, reply))
                     /\ dev' = IF reply = "ack" THEN DevWrite(dev, Copy(record))
                                                ELSE dev
                /\ free_offset' = free_offset - RecordWidth
                /\ idx' = idx + 1
                /\ UNCHANGED <<pc, result>>
    /\ UNCHANGED <<linker, userdb, cache, files, ops, site, allow, src,
                   currentdb, records, last_remove>>
    /\ UNCHANGED <<method, kind, backup, portVars, linkVars, connVars>>

\* _write, lines 220-221, and flash_cache, lines 69-70
LastRemove ==
    /\ kind = "generic"
    /\ pc = "add"
    /\ idx > Len(src.records)
    /\ IF last_remove # NoRecord
       THEN \E reply \in Replies :
               /\ log' = Append(log, CmdReply("delete", last_remove, reply))
               /\ dev' = IF reply = "ack"
                         THEN DevWrite(dev, ZeroSlot(last_remove.offset))
                         ELSE dev
       ELSE UNCHANGED <<dev, log>>
    /\ site' = "final"
    /\ allow' = FALSE
    /\ pc' = "retrieve"
    /\ UNCHANGED <<linker, userdb, cache, files, ops, src, currentdb, records,
                   idx, last_remove, free_offset, result>>
    /\ UNCHANGED <<method, kind, backup, portVars, linkVars, connVars>>

\* ModemDBManager._retrieve (lines 227-266): the get-first / get-next
\* exchange ends with the reply that says there are no more records, or no
\* reply comes at all, or a reply or a record stays out after the first reply.
\* Inside _write the error is raised again as another InsteonError
\* (lines 295-299).
ModemRetrieve ==
    /\ kind = "modem"
    /\ pc \in {"retrieve", "retrieve_again"}
    /\ \E reply \in {"ack", "lost", "none"} :
          /\ log' = Append(log, CmdReply("read", NoRecord, reply))
          /\ IF reply = "ack"
             THEN /\ records' =
                       LinkDB([k \in 1..Len(dev) |->
                                 LinkRecord(None, dev[k].address, dev[k].group,
                                            dev[k].flags, dev[k].data, None)], ops)
                  /\ pc' = IF pc = "retrieve" THEN "check" ELSE "merge"
                  /\ UNCHANGED result
             ELSE /\ Raise(IF site = "refresh"
                           THEN "InsteonError: unable to get database"
                           ELSE IF reply = "none" THEN "InsteonError: no reply"
                           ELSE "InsteonError: no link data")
                  /\ UNCHANGED records
    /\ UNCHANGED <<dev, linker, userdb, cache, files, ops, site, allow, src,
                   currentdb, idx, last_remove, free_offset>>
    /\ UNCHANGED <<method, kind, backup, portVars, linkVars, connVars>>

\* ModemDBManager._write, one turn of the loop of lines 269-293: reply_msg is
\* subscripted before it is tested, so no reply raises TypeError
ModemDeleteStep ==
    /\ kind = "modem"
    /\ pc = "delete"
    /\ idx <= Len(currentdb.records)
    /\ LET record == currentdb.records[idx]
           filter_rec == [Copy(record) EXCEPT !.offset = None]
       IN  IF Contains(src, filter_rec)
           THEN /\ idx' = idx + 1
                /\ UNCHANGED <<dev, log, pc, result>>
           ELSE \E reply \in Replies :
                  /\ log' = Append(log, CmdReply("delete", record, reply))
                  /\ CASE reply = "none" ->
                            /\ Raise("TypeError")
                            /\ UNCHANGED <<dev, idx>>
                       [] reply = "nack" ->
                            /\ Raise("InsteonError: record to delete not found")
                            /\ UNCHANGED <<dev, idx>>
                       [] OTHER ->
                            /\ dev' = ModemDelete(dev, record)
                            /\ idx' = idx + 1
                            /\ UNCHANGED <<pc, result>>
    /\ UNCHANGED <<linker, userdb, cache, files, ops, site, allow, src,
                   currentdb, records, last_remove, free_offset>>
    /\ UNCHANGED <<method, kind, backup, portVars, linkVars, connVars>>

\* ModemDBManager._write, lines 295-297
ModemRefresh ==
    /\ kind = "modem"
    /\ pc = "delete"
    /\ idx > Len(currentdb.records)
    /\ currentdb' = EmptyDB
    /\ site' = "refresh"
    /\ allow' = FALSE
    /\ pc' = "retrieve"
    /\ UNCHANGED <<dev, linker, userdb, cache, files, ops, src, records, idx,
                   last_remove, free_offset, log, result>>
    /\ UNCHANGED <<method, kind, backup, portVars, linkVars, connVars>>

\* ModemDBManager._write, one turn of the loop of lines 301-319: only a
\* missing reply is an error
ModemAddStep ==
    /\ kind = "modem"
    /\ pc = "add"
    /\ idx <= Len(src.records)
    /\ LET record == src.records[idx]
           filter_rec == [Copy(record) EXCEPT !.offset = None]
       IN  IF Contains(currentdb, filter_rec)
           THEN /\ idx' = idx + 1
                /\ UNCHANGED <<dev, log, pc, result>>
           ELSE \E reply \in Replies :
                  /\ log' = Append(log, CmdReply("add", record, reply))
                  /\ IF reply = "none"
                     THEN /\ Raise("InsteonError: no reply on add")
                          /\ UNCHANGED <<dev, idx>>
                     ELSE /\ dev' = IF reply = "ack" THEN ModemAdd(dev, record)
                                                      ELSE dev
                          /\ idx' = idx + 1
                          /\ UNCHANGED <<pc, result>>
    /\ UNCHANGED <<linker, userdb, cache, files, ops, site, allow, src,
                   currentdb, records, last_remove, free_offset>>
    /\ UNCHANGED <<method, kind, backup, portVars, linkVars, connVars>>

\* the end of ModemDBManager._write, and flash_cache, lines 69-70
ModemWriteDone ==
    /\ kind = "modem"
    /\ pc = "add"
    /\ idx > Len(src.records)
    /\ site' = "final"
    /\ allow' = FALSE
    /\ pc' = "retrieve"
    /\ UNCHANGED <<dev, linker, userdb, cache, files, ops, src, currentdb,
                   records, idx, last_remove, free_offset, log, result>>
    /\ UNCHANGED <<method, kind, backup, portVars, linkVars, connVars>>

\* The link tables a device may hold at first, and the databases a caller
\* may build: up to MaxRecords records, the k-th in slot k from the top
Links ==
    { LinkRecord(None, a[1], a[2], a[3], ZeroData, None) :
        a \in {<<ModemAddress, 1, ActiveBit>>,
               <<ModemAddress, 2, ActiveBit>>,
               <<ModemAddress, 1, ActiveBit + ControllerBit>>,
               <<AddressA, 1, ActiveBit>>} }

SlotOffset(k) == TableTop - RecordWidth * (k - 1)

LinkLists == UNION { [1..n -> Links] : n \in 0..MaxRecords }

InSlots(list) == [k \in 1..Len(list) |-> [list[k] EXCEPT !.offset = SlotOffset(k)]]

DevTables == { InSlots(l) : l \in LinkLists }

\* the last slot of the table that an add may still fill
LowestSlot == TableTop - RecordWidth * ((TableTop - RecordWidth) \div RecordWidth)

\* a table that is filled down to its last slot, given by the record in that
\* slot: end_offset depends on the lowest offset only
LowTables == { <<[l EXCEPT !.offset = LowestSlot]>> : l \in Links }

\* a record that is not in use
UnusedLink == LinkRecord(None, AddressA, 1, 0, ZeroData, None)

\* the modem's table has no offsets; the records it reports carry any flags
ModemTables ==
    UNION { [1..n -> Links \cup {UnusedLink}] : n \in 0..MaxRecords }

UserDBs ==
    { LinkDB(recs, 0) : recs \in LinkLists \cup DevTables }
        \cup { LinkDB(recs, None) : recs \in LinkLists }

DbIdle ==
    /\ cache = EmptyDB
    /\ files = {}
    /\ ops = 0
    /\ pc = "idle"
    /\ site = "user"
    /\ allow = FALSE
    /\ src = EmptyDB
    /\ currentdb = EmptyDB
    /\ records = EmptyDB
    /\ idx = 1
    /\ last_remove = NoRecord
    /\ free_offset = TableTop
    /\ log = <<>>
    /\ result = "none"
    /\ method = "none"
    /\ backup = EmptyDB

\* the functions of linkdb.py are not called on their own
LinkIdle ==
    /\ recA = NoRecord
    /\ recB = NoRecord
    /\ matched = "none"
    /\ linkdb = EmptyDB
    /\ packed_db = NoPacked
    /\ unpacked_db = EmptyDB

\* the manager is not used
DbUnused ==
    /\ kind = "generic"
    /\ dev = <<>>
    /\ linker = FALSE
    /\ userdb = EmptyDB
    /\ DbIdle

\* DBManager.__init__, for any device and any database of the caller
InitDB ==
    /\ kind \in {"generic", "modem"}
    /\ dev \in IF kind = "generic" THEN DevTables \cup LowTables ELSE ModemTables
    /\ linker \in IF kind = "generic" THEN BOOLEAN ELSE {FALSE}
    /\ userdb \in UserDBs
    /\ DbIdle

\* the manager with a port that is not used
InitManager ==
    /\ InitDB
    /\ PortIdle
    /\ LinkIdle
    /\ ConnIdle

\* Port.__init__, with a manager that is not used
InitPort ==
    /\ PortIdle
    /\ DbUnused
    /\ LinkIdle
    /\ ConnIdle

\* record.matches(other) is called
CallMatches ==
    /\ matched = "none"
    /\ matched' = IF Matches(recA, recB) THEN "true" ELSE "false"
    /\ UNCHANGED <<recA, recB, linkdb, packed_db, unpacked_db>>
    /\ UNCHANGED <<portVars, dbVars, connVars>>

\* db.packed is read, as LinkDB.save does
CallPacked ==
    /\ Valid(linkdb)
    /\ packed_db = NoPacked
    /\ packed_db' = Packed(linkdb)
    /\ UNCHANGED <<recA, recB, matched, linkdb, unpacked_db>>
    /\ UNCHANGED <<portVars, dbVars, connVars>>

\* LinkDB.unpack is called on what packed returned, as LinkDB.load does
CallUnpack ==
    /\ packed_db # NoPacked
    /\ unpacked_db = EmptyDB
    /\ unpacked_db' = Unpack(packed_db)
    /\ UNCHANGED <<recA, recB, matched, linkdb, packed_db>>
    /\ UNCHANGED <<portVars, dbVars, connVars>>

\* the values a record's fields take in the calls
Offsets == {None, 0, TableTop}

Groups == {None, 1, 2}

FlagValues == {0, ControllerBit, ActiveBit, ActiveBit + ControllerBit}

Masks == {0, ControllerBit, ActiveBit + ControllerBit}

\* records that carry a filter mask, and records that carry none
FilterRecords ==
    { LinkRecord(o, ad, g, f, ZeroData, m) :
        o \in Offsets, ad \in {ModemAddress, AddressA}, g \in Groups,
        f \in FlagValues, m \in Masks }

PlainRecords ==
    { LinkRecord(o, ad, g, f, ZeroData, None) :
        o \in Offsets, ad \in {ModemAddress, AddressA}, g \in Groups,
        f \in FlagValues }

\* the records of a database that is saved
StoredRecords ==
    { LinkRecord(o, ad, 1, f, ZeroData, None) :
        o \in Offsets, ad \in {ModemAddress, AddressA}, f \in {0, ActiveBit} }

\* populated databases, stamped at any tick of two seconds
LinkDBs ==
    { LinkDB(recs, t) :
        recs \in UNION { [1..n -> StoredRecords] : n \in 0..MaxRecords },
        t \in 0..(2 * TicksPerSecond - 1) }

\* any two records to match, or any populated database to save and load
InitLink ==
    /\ PortIdle
    /\ DbUnused
    /\ ConnIdle
    /\ matched = "none"
    /\ packed_db = NoPacked
    /\ unpacked_db = EmptyDB
    /\ \/ /\ recA \in FilterRecords
          /\ recB \in PlainRecords
          /\ linkdb = EmptyDB
       \/ /\ recA = NoRecord
          /\ recB = NoRecord
          /\ linkdb \in LinkDBs

NextLink ==
    \/ CallMatches
    \/ CallPacked
    \/ CallUnpack

NextDB ==
    \/ \E a \in BOOLEAN : CallUpdateCache(a)
    \/ \E given \in BOOLEAN, a \in BOOLEAN : CallFlashCache(given, a)
    \/ Retrieve
    \/ Check
    \/ Grant
    \/ Merge
    \/ Save
    \/ DeleteStep
    \/ Refresh
    \/ AddStep
    \/ LastRemove
    \/ ModemRetrieve
    \/ ModemDeleteStep
    \/ ModemRefresh
    \/ ModemAddStep
    \/ ModemWriteDone

NextPort ==
    \/ \E p \in Priorities, n \in RetryCounts : PortWrite(p, n)
    \/ Start
    \/ RunWriter
    \/ RunReader
    \/ \E i \in Ids : Success(i)
    \/ \E i \in Ids : Fail(i)
    \/ \E i \in Ids : RequestExit(i)
    \/ \E i \in Ids : Drop(i)
    \/ \E i \in Ids, f \in Predicates : WaitUntil(i, f)
    \/ \E i \in Ids : Wait(i)

SpecPort == InitPort /\ [][NextPort]_vars

\* The port started on a serial connection: the loops, the input of the
\* serial line and the calls on the connection
NextConn ==
    \/ Start
    \/ RunWriter
    \/ RunReader
    \/ \E frame \in Frames : Arrive(frame)
    \/ \E fails \in BOOLEAN : SerialRead(fails)
    \/ \E outcome \in {"ok", "EOFError", "InsteonError"} : SerialWrite(outcome)

SpecConn == InitPort /\ [][NextConn]_vars

SpecDB == InitManager /\ [][NextDB]_vars

SpecLink == InitLink /\ [][NextLink]_vars

\* ------------------------------------------------------------------------
\* Claims about the request engine
\* ------------------------------------------------------------------------
\* Number of times the message of request i was written to the transport
Writes(i) == Cardinality({k \in 1..Len(wire) : wire[k] = i})

\* The writer took request i from the queue and no longer works on it
WriterDoneWith(i) == got.id = i /\ writer = "failed"

\* C1: a request with retries = n that is never successful and whose every
\* try fails has been written exactly n times when the writer stops working
\* on it: never n+1 times, and never fewer.
C1_RetryBudget ==
    \A i \in Ids :
        (WriterDoneWith(i) /\ ~reqs[i].successful) => Writes(i) = reqs[i].remaining

\* Port.write returned normally whenever it was called
EnqueueSucceeds == call.op = "write" => call.outcome = "ok"

\* The request the writer took precedes, in (priority, enqueue order), every
\* request enqueued before it that is still waiting in the queue
ServedInOrder ==
    got # NoTuple =>
        \A k \in 1..Len(queue) : queue[k].id < got.id => queue[k].prio > got.prio

\* All writes of one request are adjacent on the wire
NotInterleaved ==
    \A a, b, c \in 1..Len(wire) :
        (a < b /\ b < c /\ wire[a] = wire[c]) => wire[b] = wire[a]

\* C2: requests enqueued through Port.write are served in ascending priority
\* and, at equal priority, in enqueue order; the writes of two requests are
\* never interleaved; enqueueing two requests of the same priority does not
\* fail.
C2_PriorityFifoOrder == EnqueueSucceeds /\ ServedInOrder /\ NotInterleaved

\* C6: a caller's wait for the first response matching a predicate ends with
\* the matching response or with "no match in time".
C6_WaitUntilReturns ==
    call.op = "wait_until" => call.outcome \in {"matched", "no_match_in_time"}

\* C23: a failed read or write of the stream closes the connection: after a
\* call of SerialConn.read or SerialConn.write that raised, the connection is
\* not open.
C23_FailureClosesConn ==
    (/\ call.op \in {"serial_read", "serial_write"}
     /\ call.outcome \in {"Exception", "EOFError", "InsteonError"}) => ~is_open

MessagePending == \E k \in 1..Len(stream) : stream[k] = "msg"

\* C24: input that decodes to nothing does not stop the reader, and a
\* well-formed message that arrives is decoded and routed: the reader is
\* never in its loop, taking no more input, while a well-formed message
\* waits on the open connection.
C24_ReaderTakesMessages ==
    (reader = "spinning" /\ is_open) => ~MessagePending

\* C27: a request with retries >= 1 that was enqueued while the loops run is
\* written at least once; in particular the writer does not end while such
\* a request, taken from the queue or still in it, is unwritten.
C27_EnqueuedIsWritten ==
    writer = "failed" =>
        \A i \in Ids :
            ((got.id = i \/ InQueue(i)) /\ reqs[i].remaining >= 1) => Writes(i) >= 1

\* ------------------------------------------------------------------------
\* Claims about the database manager
\* ------------------------------------------------------------------------
Unpopulated == "InsteonError: source not populated"

FlashCalled == pc = "idle" /\ ops' = ops + 1 /\ method' = "flash_cache"

\* C7: a flash_cache call whose source database has no timestamp ends at once
\* with the unpopulated-source error: nothing is sent, no backup file is
\* written, and the cache and the device are as they were.
C7_UnpopulatedSourceRefused ==
    [][(FlashCalled /\ ~Valid(src')) =>
          /\ result' = Unpopulated
          /\ pc' = "idle"
          /\ log' = <<>>
          /\ files' = files
          /\ cache' = cache
          /\ dev' = dev]_vars

C7_Witness ==
    /\ method = "flash_cache"
    /\ ~Valid(src)
    /\ result = Unpopulated
    /\ Valid(cache)
    /\ Len(cache.records) > 0

Mutating == {"start_linking_controller", "start_linking_responder", "add", "delete"}

\* C8: in a flash_cache run, every command that can change the device's link
\* table, the linking commands included, is issued after the backup is saved.
C8_BackupBeforeMutation ==
    method = "flash_cache" =>
        \A k \in 1..Len(log) :
            log[k].cmd \in Mutating => \E j \in 1..(k - 1) : log[j].cmd = "save"

OffsetCleared(r) == [Copy(r) EXCEPT !.offset = None]

\* C9: when flash_cache has completed without error, the cache holds every
\* record of the source database and every active record of the cache is in
\* the source database, offsets ignored.
C9_CacheEqualsDesired ==
    (method = "flash_cache" /\ result = "ok") =>
        /\ \A k \in 1..Len(src.records) : Contains(cache, OffsetCleared(src.records[k]))
        /\ \A k \in 1..Len(cache.records) :
              Active(cache.records[k]) => Contains(src, OffsetCleared(cache.records[k]))

ModemControllerRecord(r) ==
    r # NoRecord /\ AddrEq(r.address, ModemAddress) /\ Active(r) /\ Responder(r)

WriteReturned == method = "flash_cache" /\ site = "final"

Deletes == {k \in 1..Len(log) : log[k].cmd = "delete"}

Adds == {k \in 1..Len(log) : log[k].cmd = "add"}

ShouldDelete(r) == Active(r) /\ ~Contains(src, OffsetCleared(r))

\* C11: write issues a delete for a record of currentdb exactly when the
\* record is active and, with its offset cleared, matches no record of srcdb:
\* every delete issued is for such a record, and when write has returned
\* there is one delete for each of them.
C11_DeleteExactlyStale ==
    method = "flash_cache" =>
        /\ \A k \in Deletes :
              /\ \E j \in 1..Len(backup.records) : backup.records[j] = log[k].rec
              /\ ShouldDelete(log[k].rec)
        /\ WriteReturned =>
              /\ \A j \in 1..Len(backup.records) :
                    ShouldDelete(backup.records[j]) =>
                        \E k \in Deletes : log[k].rec = backup.records[j]
              /\ Cardinality(Deletes) =
                    Cardinality({j \in 1..Len(backup.records) :
                                    ShouldDelete(backup.records[j])})
\* the links of a table are those of a database: every active record of the
\* table is in the database and every record of the database is in the table
SameLinks(table, db) ==
    /\ \A k \in 1..Len(table.records) :
          Active(table.records[k]) => Contains(db, OffsetCleared(table.records[k]))
    /\ \A k \in 1..Len(db.records) : Contains(table, OffsetCleared(db.records[k]))

\* the first call was a flash_cache that returned, and the second call has
\* not yet replaced the cache the first one refreshed
FirstRunReturned ==
    /\ ops = 2
    /\ cache.timestamp = 1
    /\ \E f \in files : f.timestamp = Strftime(1)

\* C12: a second flash_cache with the same srcdb, against a device whose
\* table holds the links of srcdb after the first run, issues no delete and
\* no add.
C12_SecondRunIdle ==
    (method = "flash_cache" /\ FirstRunReturned /\ src = userdb
        /\ pc \notin {"retrieve", "check", "grant", "retrieve_again", "merge"}
        /\ SameLinks(backup, src))
    => (Deletes = {} /\ Adds = {})

\* a turn of the device strategy's add loop for a record that the refreshed
\* currentdb does not hold
AddTurn ==
    /\ kind = "generic"
    /\ pc = "add"
    /\ idx <= Len(src.records)
    /\ ~Contains(currentdb, OffsetCleared(src.records[idx]))

\* the device's table is filled down to the last slot
DevFull == \E k \in 1..Len(dev) : dev[k].offset - RecordWidth < RecordWidth

\* C13: when the device's table is filled down to the floor, the add turn for
\* a record the device does not hold raises the out-of-space error and sends
\* no add; and no add turn sends a record below the table's minimum or
\* replaces a slot that is in use.
C13_OutOfSpaceNoOverwrite ==
    [][AddTurn =>
        /\ DevFull => (result' = "InsteonError: out of space" /\ log' = log)
        /\ log' # log => log'[Len(log')].rec.offset >= RecordWidth
        /\ \A k \in 1..Len(dev) :
              Active(dev[k]) => \E j \in 1..Len(dev') : dev'[j] = dev[k]]_vars

\* the out-of-space error was raised for a full table
C13_OutOfSpaceRaised ==
    kind = "generic" /\ DevFull /\ result = "InsteonError: out of space"

\* the results that are an InsteonError
InsteonErrors ==
    {"InsteonError: source not populated", "InsteonError: no reply",
     "InsteonError: no link data", "InsteonError: unable to get database",
     "InsteonError: missing linker feature", "InsteonError: not linked as a controller",
     "InsteonError: out of space", "InsteonError: record to delete not found",
     "InsteonError: no reply on add"}

\* C14: in the write of either strategy, an add or a delete whose
\* acknowledgment is missing or negative is the last add or delete of the
\* call, and the call has ended with an InsteonError.
C14_UnackedStopsWrite ==
    method = "flash_cache" =>
        \A k \in Deletes \cup Adds :
            log[k].reply # "ack" =>
                /\ \A j \in Deletes \cup Adds : j <= k
                /\ pc = "idle"
                /\ result \in InsteonErrors

NotLinked == "InsteonError: not linked as a controller"

Linking == {"start_linking_controller", "start_linking_responder"}

\* update_cache has retrieved and has not yet updated its target
BeforeUpdate == pc \in {"retrieve", "check", "grant", "retrieve_again"}

\* C15: update_cache does not touch its target database before it has the
\* records it will store; when the permission check has failed and
\* allow_linking is false, it raises the permission error, sends no linking
\* command and leaves the target database as it was.
C15_RefusedWithoutLinking ==
    [][/\ BeforeUpdate => (cache' = cache /\ currentdb' = currentdb)
       /\ (pc = "grant" /\ ~allow) =>
              /\ result' = NotLinked
              /\ pc' = "idle"
              /\ log' = log
              /\ dev' = dev
              /\ site \in {"user", "backup"} =>
                    \A k \in 1..Len(log') : log'[k].cmd \notin Linking]_vars

\* update_cache was refused for a device that holds records but none that
\* makes the modem its controller
C15_Witness ==
    /\ method = "update_cache"
    /\ result = NotLinked
    /\ ~allow
    /\ Len(dev) > 0
    /\ cache = EmptyDB
    /\ Len(log) = 1

\* the step sends a read command that gets no reply at all
SilentRead ==
    /\ Len(log') = Len(log) + 1
    /\ log'[Len(log')].cmd = "read"
    /\ log'[Len(log')].reply = "none"

\* C16: in both strategies a retrieve whose read command gets no reply at
\* all raises an InsteonError and hands no database to its caller: the call
\* ends and neither the retrieved records nor any target database change.
C16_SilentDeviceRaises ==
    [][SilentRead =>
          /\ result' \in InsteonErrors
          /\ pc' = "idle"
          /\ records' = records
          /\ cache' = cache
          /\ currentdb' = currentdb]_vars

\* a device that holds links did not reply to the read
C16_Witness ==
    /\ Len(dev) > 0
    /\ Len(log) > 0
    /\ log[Len(log)].cmd = "read"
    /\ log[Len(log)].reply = "none"
    /\ result = "InsteonError: no reply"
    /\ pc = "idle"

\* flash_cache has ended in an error
FlashFailed ==
    method = "flash_cache" /\ pc = "idle" /\ result \notin {"none", "running", "ok"}

\* C17: when flash_cache has ended in an error after it sent a command that
\* can change the device's link table, a backup file is on disk that was
\* saved before the first such command, so that it holds the table as it was
\* before any mutation.
C17_FailedFlashHasBackup ==
    (FlashFailed /\ \E k \in 1..Len(log) : log[k].cmd \in Mutating) =>
        /\ files # {}
        /\ \E j \in 1..Len(log) :
              /\ log[j].cmd = "save"
              /\ \A k \in 1..(j - 1) : log[k].cmd \notin Mutating

\* C20: in the add loop of the device strategy the cursor stands at the end
\* offset of the refreshed currentdb less 8 for every record added so far; a
\* record that is added is sent to the cursor's offset, the cursor then
\* moves down by 8, and no slot that is in use is replaced.
C20_AddAtFreeOffset ==
    [][AddTurn =>
          /\ free_offset = EndOffset(currentdb) - RecordWidth * Cardinality(Adds)
          /\ log' # log =>
                /\ log'[Len(log')].cmd = "add"
                /\ log'[Len(log')].rec.offset = free_offset
                /\ free_offset' = free_offset - RecordWidth
                /\ \A k \in 1..Len(dev) :
                      Active(dev[k]) => \E j \in 1..Len(dev') : dev'[j] = dev[k]]_vars

\* the device strategy's update_cache is about to store the records it
\* retrieved and return
UpdateReturns == kind = "generic" /\ pc = "merge"

\* the records were retrieved after the linking commands of this update_cache
AfterLinking ==
    /\ Len(log) >= 2
    /\ log[Len(log)].cmd = "read"
    /\ log[Len(log) - 1].cmd \in Linking

SetFieldsEqual(x, y) ==
    /\ (x.offset # None /\ y.offset # None) => x.offset = y.offset
    /\ (x.address # NoneSeq /\ y.address # NoneSeq) => AddrEq(x.address, y.address)
    /\ (x.group # None /\ y.group # None) => x.group = y.group
    /\ (x.data # NoneSeq /\ y.data # NoneSeq) => x.data = y.data

\* C18: for a record A that carries a filter mask M, whatever M selects, and
\* a record B that carries none, matches is true exactly when the flags
\* agree on the bits of M and every other field set on both sides is equal.
C18_MaskedMatch ==
    (matched # "none" /\ recA # NoRecord /\ recA.mask # None /\ recB.mask = None) =>
        (matched = "true" <=>
            /\ BitAnd(recA.flags, recA.mask) = BitAnd(recB.flags, recA.mask)
            /\ SetFieldsEqual(recA, recB))

\* C19: unpack of packed gives the timestamp of the database to the second,
\* and its records in order, each with the offset, address, group, flags and
\* data it had; an offset that is set is kept and one that is unset stays
\* unset.
C19_PackRoundTrip ==
    Valid(unpacked_db) =>
        /\ unpacked_db.timestamp \div TicksPerSecond = linkdb.timestamp \div TicksPerSecond
        /\ Len(unpacked_db.records) = Len(linkdb.records)
        /\ \A k \in 1..Len(linkdb.records) :
              /\ unpacked_db.records[k].offset = linkdb.records[k].offset
              /\ unpacked_db.records[k].address = linkdb.records[k].address
              /\ unpacked_db.records[k].group = linkdb.records[k].group
              /\ unpacked_db.records[k].flags = linkdb.records[k].flags
              /\ unpacked_db.records[k].data = linkdb.records[k].data
====
